---- MODULE Spec2Model ----
(***************************************************************************)
(* A model of src/frameworks/next.js/templates.ts: the four generators     *)
(* firebaseJsonStuff, newFunctionsYaml, newServerJs and newPackageJson.    *)
(*                                                                         *)
(* JavaScript values are tuples of strings whose first element is the      *)
(* typeof-like tag: <<"undefined">>, <<"null">>, <<"string", s>>,          *)
(* <<"number", n>>, <<"boolean", b>>, <<"array", text>>, <<"object", id>>. *)
(* Objects whose fields the code destructures are TLA+ records; a missing  *)
(* property is a missing record field.                                     *)
(***************************************************************************)
EXTENDS Integers, Sequences, FiniteSets, TLC

VARIABLES
    disk,          \* path -> content of the file at that path
    pc,            \* position of the firebaseJsonStuff call: "idle" | "awaitRead"
    distDirArg,    \* the distDir argument of the call in flight or last settled
    reads,         \* readFile calls issued by the current/last firebaseJsonStuff call
    routes,        \* settlement of the last firebaseJsonStuff call
    yaml,          \* the last newFunctionsYaml call: its config and returned text
    server,        \* the last newServerJs call: its arguments and returned text
    heap,          \* the caller's package manifest: object id -> properties
    argBefore,     \* the heap as it was when the last newPackageJson call began
    pkg,           \* the last newPackageJson call: how it ended and its text
    prevText       \* the text whose parse the last call was given, if any

vars == <<disk, pc, distDirArg, reads, routes, yaml, server,
          heap, argBefore, pkg, prevText>>

routesVars == <<disk, pc, distDirArg, reads, routes>>
templateVars == <<yaml, server>>
packageVars == <<heap, argBefore, pkg, prevText>>

\* ------------------------------------------------------------------ bounds
MaxHeaders == 2
MaxRedirects == 2
MaxRewrites == 2
MaxPhase == 1

\* ------------------------------------------------------------- JS values
Undefined == <<"undefined">>
Null == <<"null">>
Str(s) == <<"string", s>>
Num(n) == <<"number", n>>
Bool(b) == <<"boolean", b>>
Arr(text) == <<"array", text>>
\* an object is its own properties in insertion order, each <<key, value>>
Obj(props) == <<"object", props>>
\* an array whose elements the model looks into
ArrOf(items) == <<"array", items>>

\* ToBoolean, as applied by `!x`, `x || y`, `x ||= y`, `c ? a : b`, filter()
Truthy(v) ==
    CASE v[1] = "undefined" -> FALSE
      [] v[1] = "null" -> FALSE
      [] v[1] = "string" -> v[2] # ""
      [] v[1] = "number" -> v[2] \notin {"0", "NaN"}
      [] v[1] = "boolean" -> v[2] = "true"
      [] OTHER -> TRUE

\* property read o.k / destructuring {k} of an object: undefined when missing
Get(o, k) == IF k \in DOMAIN o THEN o[k] ELSE Undefined

\* destructuring with a default, {k = d}: d when the property is missing
GetOr(o, k, d) == IF k \in DOMAIN o THEN o[k] ELSE d

\* sequences over S of length at most n
SeqUpTo(S, n) == UNION {[1..k -> S] : k \in 0..n}

\* ------------------------------------------------------------ JSON text
\* Text is a sequence of tokens <<kind, characters>>.
P(x) == <<"p", x>>
S(x) == <<"str", x>>
L(x) == <<"lit", x>>
T(x) == <<"text", x>>
NewLine == <<"ws", "\n">>
IndentUnit == <<"ws", "  ">>

\* property write o[k] = v: in place when o has k, appended otherwise
SetProp(props, k, v) ==
    IF \E i \in 1..Len(props) : props[i][1] = k
    THEN [i \in 1..Len(props) |-> IF props[i][1] = k THEN <<k, v>> ELSE props[i]]
    ELSE Append(props, <<k, v>>)

\* property read o[k]
GetProp(props, k) ==
    IF \E i \in 1..Len(props) : props[i][1] = k
    THEN props[CHOOSE i \in 1..Len(props) : props[i][1] = k][2]
    ELSE Undefined

HasProp(props, k) == \E i \in 1..Len(props) : props[i][1] = k

RECURSIVE Indent(_)
Indent(d) == IF d = 0 THEN <<>> ELSE <<IndentUnit>> \o Indent(d - 1)

\* the line break and indentation JSON.stringify puts before a member or a
\* closing bracket when it is given a gap
Break(d, pretty) == IF pretty THEN <<NewLine>> \o Indent(d) ELSE <<>>

\* properties whose value is undefined are left out of the text
Serializable(member) == member[2][1] # "undefined"

RECURSIVE Ser(_, _, _)
RECURSIVE SerMembers(_, _, _)
RECURSIVE SerItems(_, _, _)
SerMembers(ms, d, pretty) ==
    IF ms = <<>> THEN <<>>
    ELSE Break(d, pretty)
         \o <<S(ms[1][1]), P(IF pretty THEN ": " ELSE ":")>>
         \o Ser(ms[1][2], d, pretty)
         \o (IF Len(ms) > 1 THEN <<P(",")>> ELSE <<>>)
         \o SerMembers(Tail(ms), d, pretty)

SerItems(items, d, pretty) ==
    IF items = <<>> THEN <<>>
    ELSE Break(d, pretty)
         \o (IF items[1][1] = "undefined" THEN <<L("null")>> ELSE Ser(items[1], d, pretty))
         \o (IF Len(items) > 1 THEN <<P(",")>> ELSE <<>>)
         \o SerItems(Tail(items), d, pretty)

Ser(v, d, pretty) ==
    CASE v[1] = "object" ->
            LET ms == SelectSeq(v[2], Serializable)
            IN  IF ms = <<>> THEN <<P("{"), P("}")>>
                ELSE <<P("{")>> \o SerMembers(ms, d + 1, pretty)
                     \o Break(d, pretty) \o <<P("}")>>
      [] v[1] = "array" ->
            IF v[2] = <<>> THEN <<P("["), P("]")>>
            ELSE <<P("[")>> \o SerItems(v[2], d + 1, pretty)
                 \o Break(d, pretty) \o <<P("]")>>
      [] v[1] = "string" -> <<S(v[2])>>
      [] v[1] = "number" -> <<L(IF v[2] = "NaN" THEN "null" ELSE v[2])>>
      [] v[1] = "boolean" -> <<L(v[2])>>
      [] OTHER -> <<L("null")>>

\* JSON.stringify(value, null, 2) when pretty, JSON.stringify(value) otherwise
JSONstringify(v, pretty) == Ser(v, 0, pretty)

RECURSIVE SkipWs(_)
SkipWs(ts) == IF ts # <<>> /\ Head(ts)[1] = "ws" THEN SkipWs(Tail(ts)) ELSE ts

LitValue(x) ==
    CASE x = "null" -> Null
      [] x \in {"true", "false"} -> Bool(x)
      [] OTHER -> Num(x)

RECURSIVE ParseValue(_)
RECURSIVE ParseMembers(_, _)
RECURSIVE ParseItems(_, _)
ParseMembers(ts, acc) ==
    LET key == Head(ts)[2]
        val == ParseValue(Tail(Tail(ts)))
        acc2 == SetProp(acc, key, val.v)
        after == SkipWs(val.rest)
    IN  IF Head(after) = P(",")
        THEN ParseMembers(SkipWs(Tail(after)), acc2)
        ELSE [v |-> Obj(acc2), rest |-> Tail(after)]

ParseItems(ts, acc) ==
    LET val == ParseValue(ts)
        acc2 == Append(acc, val.v)
        after == SkipWs(val.rest)
    IN  IF Head(after) = P(",")
        THEN ParseItems(SkipWs(Tail(after)), acc2)
        ELSE [v |-> ArrOf(acc2), rest |-> Tail(after)]

ParseValue(ts0) ==
    LET ts == SkipWs(ts0)
        h == Head(ts)
        inner == SkipWs(Tail(ts))
    IN  CASE h = P("{") ->
                IF Head(inner) = P("}") THEN [v |-> Obj(<<>>), rest |-> Tail(inner)]
                ELSE ParseMembers(inner, <<>>)
          [] h = P("[") ->
                IF Head(inner) = P("]") THEN [v |-> ArrOf(<<>>), rest |-> Tail(inner)]
                ELSE ParseItems(inner, <<>>)
          [] h[1] = "str" -> [v |-> Str(h[2]), rest |-> Tail(ts)]
          [] OTHER -> [v |-> LitValue(h[2]), rest |-> Tail(ts)]

\* JSON.parse of a text JSON.stringify wrote
JSONparseText(ts) == ParseValue(ts).v

\* -------------------------------------------------------- newPackageJson
ObjIds == {"packageJson", "dependencies", "engines"}
Ref(id) == <<"ref", id>>
EmptyHeap == [id \in ObjIds |-> <<>>]

\* the object graph below a value, as JSON.stringify walks it
RECURSIVE Deref(_, _)
Deref(v, h) ==
    IF v[1] = "ref"
    THEN Obj([i \in 1..Len(h[v[2]]) |-> <<h[v[2]][i][1], Deref(h[v[2]][i][2], h)>>])
    ELSE v

\* lines 178-182
NODE_VERSION == Str("18")
FIREBASE_ADMIN_VERSION == Str("^10.0.0")
FIREBASE_FUNCTIONS_VERSION == Str("^3.16.0")
COOKIE_VERSION == Str("^0.4.2")
LRU_CACHE_VERSION == Str("^7.3.1")

\* o[k] ||= d
orAssign(props, k, d) ==
    IF Truthy(GetProp(props, k)) THEN props ELSE SetProp(props, k, d)

\* line 188 reading the key of line 189
patchDependencies_readsWrongKey(deps) ==
    LET a == SetProp(deps, "firebase-admin",
                     IF Truthy(GetProp(deps, "firebase-functions"))
                     THEN GetProp(deps, "firebase-functions")
                     ELSE FIREBASE_ADMIN_VERSION)
        b == orAssign(a, "firebase-functions", FIREBASE_FUNCTIONS_VERSION)
        c == orAssign(b, "cookie", COOKIE_VERSION)
    IN  orAssign(c, "lru-cache", LRU_CACHE_VERSION)

\* lines 188-192
patchDependencies(deps) ==
    LET a == orAssign(deps, "firebase-admin", FIREBASE_ADMIN_VERSION)
        b == orAssign(a, "firebase-functions", FIREBASE_FUNCTIONS_VERSION)
        c == orAssign(b, "cookie", COOKIE_VERSION)
    IN  orAssign(c, "lru-cache", LRU_CACHE_VERSION)

\* lines 184-196, called with the object "packageJson" of heap h. The result
\* carries the heap as the caller finds it afterwards.
newPackageJson(h) ==
    LET spread == h["packageJson"]
        withMain == SetProp(spread, "main", Str("server.js"))
        deps == GetProp(withMain, "dependencies")
    IN  IF deps[1] # "ref"
        THEN [status |-> "threw", error |-> "TypeError", heap |-> h]
        ELSE
            LET h1 == [h EXCEPT ![deps[2]] = patchDependencies(h[deps[2]])]
                fresh == ~Truthy(GetProp(withMain, "engines"))
                newPackageJSON ==
                    IF fresh THEN SetProp(withMain, "engines", Ref("newEngines"))
                    ELSE withMain
                h2 == IF fresh THEN ("newEngines" :> <<>>) @@ h1 ELSE h1
                engines == GetProp(newPackageJSON, "engines")[2]
                h3 == [h2 EXCEPT ![engines] = orAssign(h2[engines], "node", NODE_VERSION)]
                h4 == ("newPackageJSON" :> newPackageJSON) @@ h3
            IN  [status |-> "returned",
                 text |-> JSONstringify(Deref(Ref("newPackageJSON"), h4), TRUE),
                 heap |-> [id \in DOMAIN h |-> h3[id]]]

\* the object graph JSON.parse builds, as a heap: the nested objects of the
\* manifest take the id of their key
Load(tree) ==
    LET props == tree[2]
        nested(k) ==
            IF GetProp(props, k)[1] = "object" THEN GetProp(props, k)[2] ELSE <<>>
    IN  [id \in ObjIds |->
            IF id = "packageJson"
            THEN [i \in 1..Len(props) |->
                    IF props[i][2][1] = "object"
                    THEN <<props[i][1], Ref(props[i][1])>> ELSE props[i]]
            ELSE nested(id)]

\* Package manifests a caller can hold.
MaxDeps == 2
DepKeys == {"firebase-admin", "firebase-functions", "cookie", "lru-cache", "next"}
DepValues == {Str("9.9.9"), Str("")}
DepsProps ==
    { s \in SeqUpTo(DepKeys \X DepValues, MaxDeps) :
        \A i, j \in 1..Len(s) : i # j => s[i][1] # s[j][1] }
EnginesProps ==
    { <<>>,
      << <<"node", Str("16")>> >>,
      << <<"node", Null>> >> }
NameChoices == { << <<"name", Str("app")>> >>, << <<"name", Str("app")>>, <<"private", Undefined>> >> }
MainChoices == { <<>>, << <<"main", Str("index.js")>> >> }
DepsChoices ==
    { [top |-> <<>>, props |-> <<>>],
      [top |-> << <<"dependencies", Null>> >>, props |-> <<>>] }
    \cup { [top |-> << <<"dependencies", Ref("dependencies")>> >>, props |-> d] :
            d \in DepsProps }
EnginesChoices ==
    { [top |-> <<>>, props |-> <<>>],
      [top |-> << <<"engines", Null>> >>, props |-> <<>>] }
    \cup { [top |-> << <<"engines", Ref("engines")>> >>, props |-> e] :
            e \in EnginesProps }

CallNewPackageJson ==
    /\ LET r == newPackageJson(heap)
       IN  /\ heap' = r.heap
           /\ pkg' = IF r.status = "returned"
                     THEN [status |-> "returned", text |-> r.text, of |-> "object"]
                     ELSE [status |-> "threw", error |-> r.error, of |-> "object"]
    /\ argBefore' = heap
    /\ prevText' = <<>>
    /\ UNCHANGED <<routesVars, templateVars>>

\* a redeploy: the caller parses the text it was returned and patches that
ReparseAndPatch ==
    /\ pkg.status = "returned"
    /\ LET parsed == Load(JSONparseText(pkg.text))
           r == newPackageJson(parsed)
       IN  /\ argBefore' = parsed
           /\ heap' = r.heap
           /\ pkg' = IF r.status = "returned"
                     THEN [status |-> "returned", text |-> r.text, of |-> "reparsed"]
                     ELSE [status |-> "threw", error |-> r.error, of |-> "reparsed"]
    /\ prevText' = pkg.text
    /\ UNCHANGED <<routesVars, templateVars>>

\* ------------------------------------------------- routes-manifest.json
\* Manifest entries (Header/Redirect/Rewrite & {regex}) the build can write.
HeaderEntries ==
    { [source |-> Str("/a"), regex |-> Str("^/a$"), headers |-> Arr("[X-A]")],
      [source |-> Str("/b"), regex |-> Str("^/b$"), headers |-> Arr("[X-B]")] }

RedirectEntries ==
    { [source |-> Str("/a"), destination |-> Str("/b"), statusCode |-> Num("301"),
       internal |-> Bool("false"), regex |-> Str("^/a$")],
      [source |-> Str("/x"), destination |-> Str("/y"), statusCode |-> Num("302"),
       internal |-> Bool("true"), regex |-> Str("^/x$")],
      [source |-> Str("/p"), destination |-> Str("/q"), statusCode |-> Num("308"),
       regex |-> Str("^/p$")] }

RewriteEntries ==
    { [source |-> Str("/r1"), destination |-> Str("/d1"), regex |-> Str("^/r1$"),
       locale |-> Bool("false")],
      [source |-> Str("/r2"), destination |-> Str("/d2"), regex |-> Str("^/r2$"),
       has |-> Arr("[{type:header,key:x}]")],
      [source |-> Str("/r3"), destination |-> Str("/d3"), regex |-> Str("^/r3$"),
       has |-> Arr("[]")] }

\* entries that only the later phases of a phased grouping carry
LatePhaseEntries ==
    { [source |-> Str("/late"), destination |-> Str("/dl"), regex |-> Str("^/late$")] }

\* `rewrites` is an array, or an object with optional phase arrays
FlatRewrites == { [isArray |-> TRUE, items |-> s] : s \in SeqUpTo(RewriteEntries, MaxRewrites) }

PhaseArrays == SeqUpTo(RewriteEntries, MaxPhase)

LateArrays == SeqUpTo(LatePhaseEntries, 1)

PhasedRewrites ==
    { [isArray |-> FALSE] } \cup
    { [isArray |-> FALSE, beforeFiles |-> b] : b \in PhaseArrays } \cup
    { [isArray |-> FALSE, afterFiles |-> a, fallback |-> f] :
        a \in LateArrays, f \in LateArrays } \cup
    { [isArray |-> FALSE, beforeFiles |-> b, afterFiles |-> a, fallback |-> f] :
        b \in PhaseArrays, a \in LateArrays, f \in LateArrays }

RewritesValues == FlatRewrites \cup PhasedRewrites

Manifests ==
    { [distDir |-> Str(".next")] } \cup
    { [headers |-> h, redirects |-> r, rewrites |-> w] :
        h \in SeqUpTo(HeaderEntries, MaxHeaders),
        r \in SeqUpTo(RedirectEntries, MaxRedirects),
        w \in RewritesValues }

\* What a path of the disk can hold.
Missing == [kind |-> "missing"]
NotJson == [kind |-> "text", json |-> FALSE]
JsonNull == [kind |-> "text", json |-> TRUE, isObject |-> FALSE]
JsonOf(m) == [kind |-> "text", json |-> TRUE, isObject |-> TRUE, value |-> m]

FileContents == {Missing, NotJson, JsonNull} \cup { JsonOf(m) : m \in Manifests }

DistDirs == {".next", "out"}

\* getProjectPath(distDir, 'routes-manifest.json')
getProjectPath(distDir, name) == <<distDir, name>>

\* fs.promises.readFile: rejects when the file is absent, else resolves to its bytes
readFile(path) ==
    IF disk[path].kind = "missing"
    THEN [ok |-> FALSE, error |-> "ENOENT"]
    ELSE [ok |-> TRUE, buffer |-> disk[path]]

\* JSON.parse(buffer.toString())
JSONparse(buffer) ==
    IF ~buffer.json THEN [ok |-> FALSE, error |-> "SyntaxError"]
    ELSE [ok |-> TRUE, isObject |-> buffer.isObject,
          value |-> IF buffer.isObject THEN buffer.value ELSE <<>>]

\* the element `return undefined` leaves in the mapped rewrites array
UndefinedElem == [undefined |-> TRUE]
IsUndefinedElem(it) == "undefined" \in DOMAIN it

\* line 45, the map callback
projectHeader(e) == [source |-> Get(e, "source"), headers |-> Get(e, "headers")]

\* line 45: nextJsHeaders.map(...)
mapHeaders_reversed(nextJsHeaders) ==
    [i \in 1..Len(nextJsHeaders) |->
        projectHeader(nextJsHeaders[Len(nextJsHeaders) + 1 - i])]

mapHeaders(nextJsHeaders) ==
    [i \in 1..Len(nextJsHeaders) |-> projectHeader(nextJsHeaders[i])]

\* line 47, the filter callback
notInternal_keepsAll(e) == TRUE

notInternal(e) == ~Truthy(Get(e, "internal"))

\* line 48, the map callback
projectRedirect(e) ==
    [source |-> Get(e, "source"), destination |-> Get(e, "destination"),
     type |-> Get(e, "statusCode")]

\* lines 46-48: nextJsRedirects.filter(...).map(...)
mapRedirects(nextJsRedirects) ==
    LET kept == SelectSeq(nextJsRedirects, notInternal)
    IN  [i \in 1..Len(kept) |-> projectRedirect(kept[i])]

\* line 49
rewritesToUse_allPhases(nextJsRewrites) ==
    IF nextJsRewrites.isArray THEN nextJsRewrites.items
    ELSE GetOr(nextJsRewrites, "beforeFiles", <<>>)
         \o GetOr(nextJsRewrites, "afterFiles", <<>>)
         \o GetOr(nextJsRewrites, "fallback", <<>>)

rewritesToUse(nextJsRewrites) ==
    IF nextJsRewrites.isArray THEN nextJsRewrites.items
    ELSE GetOr(nextJsRewrites, "beforeFiles", <<>>)

\* lines 50-53, the map callback
projectRewrite_ignoresHas(e) ==
    [source |-> Get(e, "source"), destination |-> Get(e, "destination")]

projectRewrite(e) ==
    IF Truthy(Get(e, "has")) THEN UndefinedElem
    ELSE [source |-> Get(e, "source"), destination |-> Get(e, "destination")]

\* line 54, the filter callback
isKept(it) == ~IsUndefinedElem(it)

\* lines 50-54: nextJsRewritesToUse.map(...).filter(it => it)
mapRewrites(nextJsRewritesToUse) ==
    LET mapped == [i \in 1..Len(nextJsRewritesToUse) |->
                      projectRewrite(nextJsRewritesToUse[i])]
    IN  SelectSeq(mapped, isKept)

\* lines 40-55: the synchronous tail of firebaseJsonStuff on a parsed manifest
translate(manifest) ==
    LET nextJsHeaders == GetOr(manifest, "headers", <<>>)
        nextJsRedirects == GetOr(manifest, "redirects", <<>>)
        nextJsRewrites == GetOr(manifest, "rewrites", [isArray |-> TRUE, items |-> <<>>])
        headers == mapHeaders(nextJsHeaders)
        redirects == mapRedirects(nextJsRedirects)
        nextJsRewritesToUse == rewritesToUse(nextJsRewrites)
        rewrites == mapRewrites(nextJsRewritesToUse)
    IN  [headers |-> headers, rewrites |-> rewrites, redirects |-> redirects]

\* a variant that answers a failed read or parse with empty sequences
settle_swallowsErrors(path) ==
    LET rd == readFile(path)
        parsed == JSONparse(rd.buffer)
    IN  IF rd.ok /\ parsed.ok /\ parsed.isObject
        THEN [status |-> "fulfilled", value |-> translate(parsed.value)]
        ELSE [status |-> "fulfilled", value |-> [headers |-> <<>>]]

\* lines 38-55: what the promise settles to once the read has settled
settle(path) ==
    LET rd == readFile(path)
        parsed == JSONparse(rd.buffer)
    IN  IF ~rd.ok THEN [status |-> "rejected", error |-> rd.error]
        ELSE IF ~parsed.ok THEN [status |-> "rejected", error |-> parsed.error]
        ELSE IF ~parsed.isObject THEN [status |-> "rejected", error |-> "TypeError"]
        ELSE [status |-> "fulfilled", value |-> translate(parsed.value)]

NoCall == [status |-> "none"]

\* firebaseJsonStuff up to its await: resolve the path and issue the one read
CallFirebaseJsonStuff ==
    /\ pc = "idle"
    /\ \E d \in DistDirs :
        /\ distDirArg' = d
        /\ reads' = 1
        /\ routes' = [status |-> "pending"]
        /\ pc' = "awaitRead"
    /\ UNCHANGED <<disk, templateVars, packageVars>>

\* the read settles and the rest of the function runs to its return or throw
ReadSettles ==
    /\ pc = "awaitRead"
    /\ routes' = settle(getProjectPath(distDirArg, "routes-manifest.json"))
    /\ pc' = "idle"
    /\ UNCHANGED <<disk, distDirArg, reads, templateVars, packageVars>>

Paths == { getProjectPath(d, "routes-manifest.json") : d \in DistDirs }

InitRoutes ==
    /\ \E c \in FileContents :
        disk = [p \in Paths |-> IF p[1] = ".next" THEN c ELSE Missing]
    /\ pc = "idle"
    /\ distDirArg = ".next"
    /\ reads = 0
    /\ routes = NoCall
    /\ yaml = NoCall
    /\ server = NoCall
    /\ heap = EmptyHeap
    /\ argBefore = EmptyHeap
    /\ pkg = NoCall
    /\ prevText = <<>>

NextRoutes == CallFirebaseJsonStuff \/ ReadSettles

SpecRoutes == InitRoutes /\ [][NextRoutes]_vars

\* ------------------------------------------- properties of firebaseJsonStuff
PathRead == getProjectPath(distDirArg, "routes-manifest.json")
Settled == pc = "idle" /\ routes.status # "none"
Fulfilled == pc = "idle" /\ routes.status = "fulfilled"
ManifestRead == disk[PathRead].value
InHeaders == GetOr(ManifestRead, "headers", <<>>)
InRedirects == GetOr(ManifestRead, "redirects", <<>>)
InRewrites == GetOr(ManifestRead, "rewrites", [isArray |-> TRUE, items |-> <<>>])
IsPhased == ~InRewrites.isArray
Candidates ==
    IF InRewrites.isArray THEN InRewrites.items
    ELSE IF "beforeFiles" \in DOMAIN InRewrites THEN InRewrites.beforeFiles
    ELSE <<>>
LatePhases ==
    (IF "afterFiles" \in DOMAIN InRewrites THEN InRewrites.afterFiles ELSE <<>>)
    \o (IF "fallback" \in DOMAIN InRewrites THEN InRewrites.fallback ELSE <<>>)

IsInternal(e) == "internal" \in DOMAIN e /\ e.internal = Bool("true")
HasCondition(e) == "has" \in DOMAIN e
ExpectedRedirect(e) ==
    [source |-> e.source, destination |-> e.destination, type |-> e.statusCode]
ExpectedRewrite(e) == [source |-> e.source, destination |-> e.destination]
PublicRedirects == { i \in 1..Len(InRedirects) : ~IsInternal(InRedirects[i]) }
PlainRewrites == { i \in 1..Len(Candidates) : ~HasCondition(Candidates[i]) }
\* the j-th smallest index of the index set K
NthOf(K, j) == CHOOSE i \in K : Cardinality({ k \in K : k < i }) = j - 1

\* C3: the output redirects hold no entry of an internal redirect and exactly
\* one {source, destination, type} entry, type being the statusCode, for each
\* other redirect of the manifest (equal multiplicities).
C3_RedirectsDropInternal ==
    Fulfilled =>
        LET out == routes.value.redirects
            shapes == { ExpectedRedirect(InRedirects[i]) : i \in 1..Len(InRedirects) }
                      \cup { out[j] : j \in 1..Len(out) }
        IN  /\ \A j \in 1..Len(out) : DOMAIN out[j] = {"source", "destination", "type"}
            /\ \A x \in shapes :
                Cardinality({ j \in 1..Len(out) : out[j] = x })
                = Cardinality({ i \in PublicRedirects : ExpectedRedirect(InRedirects[i]) = x })
            /\ \A i \in 1..Len(InRedirects) :
                IsInternal(InRedirects[i]) =>
                    \A j \in 1..Len(out) : out[j].source # InRedirects[i].source

C3_Witness ==
    /\ Fulfilled
    /\ \E i, k \in 1..Len(InRedirects) :
        IsInternal(InRedirects[i]) /\ ~IsInternal(InRedirects[k])
    /\ Len(routes.value.redirects) = 1
    /\ routes.value.redirects[1].type = Num("301")

\* C4: a candidate rewrite that carries `has` yields no output entry, any other
\* yields an entry with exactly the fields source and destination, and the
\* output rewrites hold no undefined element.
C4_RewritesDropConditional ==
    Fulfilled =>
        LET out == routes.value.rewrites
            shapes == { ExpectedRewrite(Candidates[i]) : i \in 1..Len(Candidates) }
                      \cup { out[j] : j \in 1..Len(out) }
        IN  /\ \A j \in 1..Len(out) : DOMAIN out[j] = {"source", "destination"}
            /\ \A x \in shapes :
                Cardinality({ j \in 1..Len(out) : out[j] = x })
                = Cardinality({ i \in PlainRewrites : ExpectedRewrite(Candidates[i]) = x })

C4_Witness ==
    /\ Fulfilled
    /\ \E i, k \in 1..Len(Candidates) :
        /\ HasCondition(Candidates[i])
        /\ ~HasCondition(Candidates[k]) /\ "locale" \in DOMAIN Candidates[k]
    /\ Len(routes.value.rewrites) = 1

C7_PhaseSelection ==
    Fulfilled =>
        LET out == routes.value.rewrites
            phase == IF "beforeFiles" \in DOMAIN InRewrites
                     THEN InRewrites.beforeFiles ELSE <<>>
            chosen == IF IsPhased THEN phase ELSE InRewrites.items
        IN  /\ (IsPhased /\ "beforeFiles" \notin DOMAIN InRewrites) => out = <<>>
            /\ IsPhased =>
                \A j \in 1..Len(out), k \in 1..Len(LatePhases) :
                    out[j].source # LatePhases[k].source
            /\ \A j \in 1..Len(out) :
                \E i \in 1..Len(chosen) : out[j].source = chosen[i].source
            /\ Len(out) = Cardinality({ i \in 1..Len(chosen) : ~HasCondition(chosen[i]) })

C7_Witness ==
    /\ Fulfilled
    /\ IsPhased
    /\ "beforeFiles" \in DOMAIN InRewrites
    /\ Len(LatePhases) = 2
    /\ Len(routes.value.rewrites) = 1

ReadOk == disk[PathRead].kind # "missing"
ParseOk == ReadOk /\ disk[PathRead].json
NoResult == DOMAIN routes = {"status", "error"}
AllThree ==
    /\ DOMAIN routes = {"status", "value"}
    /\ DOMAIN routes.value = {"headers", "rewrites", "redirects"}

Gens == {1, 2}
Names == {"ssr", "api"}
Regions == {"us-central1", "europe-west1"}
Configs == [gen : Gens, name : Names, region : Regions]

\* FirebaseOptions | null
ClientOptions ==
    { Null,
      Obj(<<>>),
      Obj(<< <<"apiKey", Str("k")>>, <<"projectId", Str("p")>> >>) }

\* ------------------------------------------------------ newFunctionsYaml
\* lines 64 and 67 as a plausible slip: region not wrapped in a list
functionsYamlObject_bareRegion(config) ==
    Obj(<< <<"endpoints", Obj(<< <<config.name, Obj(<<
                <<"platform", Str("gcfv" \o ToString(config.gen))>>,
                <<"region", Str(config.region)>>,
                <<"labels", Obj(<<>>)>>,
                <<"httpsTrigger", Obj(<<>>)>>,
                <<"entryPoint", Str(config.name)>> >>)>> >>)>>,
           <<"specVersion", Str("v1alpha1")>>,
           <<"requiredAPIs", ArrOf(<<>>)>> >>)

\* lines 60-72: the object literal
functionsYamlObject(config) ==
    Obj(<< <<"endpoints", Obj(<< <<config.name, Obj(<<
                <<"platform", Str("gcfv" \o ToString(config.gen))>>,
                <<"region", ArrOf(<<Str(config.region)>>)>>,
                <<"labels", Obj(<<>>)>>,
                <<"httpsTrigger", Obj(<<>>)>>,
                <<"entryPoint", Str(config.name)>> >>)>> >>)>>,
           <<"specVersion", Str("v1alpha1")>>,
           <<"requiredAPIs", ArrOf(<<>>)>> >>)

newFunctionsYaml(config) == JSONstringify(functionsYamlObject(config), TRUE)

CallNewFunctionsYaml ==
    /\ \E config \in Configs :
        yaml' = [status |-> "returned", config |-> config,
                 text |-> newFunctionsYaml(config)]
    /\ UNCHANGED <<routesVars, server, packageVars>>

\* ----------------------------------------------------------- newServerJs
\* The template's literal stretches, named by what they hold.
RequiresText == T("const { parse } = require('url'); ... const { join } = require('path');")
AdminImportsText == T("const { initializeApp: initializeAdminApp } = require('firebase-admin/app'); ... const firebaseConfig = ")
LruText == T("; const firebaseAppsLRU = new LRU({ max: 100, ttl: 1_000 * 60 * 5, ... });")
NextAppText == T("const nextApp = next({ dev: false, dir: __dirname }); const nextAppPrepare = nextApp.prepare(); exports[")
HandlerOpenText == T("async (req, res) => {")
CookieBranchText == T("const cookies = cookie.parse(req.headers.cookie || ''); ... if (req.url === '/__next/cookie') { ... } ... req['currentUser'] = auth.currentUser; }")
HandlerTailText == T("const parsedUrl = parse(req.url, true); await nextAppPrepare; nextApp.getRequestHandler()(req, res, parsedUrl); });")

\* lines 78-80
conditionalImports(gen) ==
    IF gen = 1 THEN <<T("const functions = require('firebase-functions');")>>
    ELSE <<T("const { onRequest } = require('firebase-functions/v2/https');")>>

\* lines 81-83
onRequest(gen, region) ==
    IF gen = 1 THEN <<T("functions.https.onRequest(")>>
    ELSE <<T("onRequest({ region: '"), T(region), T("' }, ")>>

\* lines 87-109: ${options ? `...` : ''}
sessionImports(options) ==
    IF Truthy(options)
    THEN <<AdminImportsText>> \o JSONstringify(options, FALSE) \o <<LruText>>
    ELSE <<>>

\* the second block guarded by the presence of a key instead of `options`
sessionHandler_needsApiKey(options) ==
    IF Truthy(options) /\ HasProp(options[2], "apiKey") THEN <<CookieBranchText>> ELSE <<>>

\* lines 114-170: ${options ? `...` : ''}
sessionHandler(options) ==
    IF Truthy(options) THEN <<CookieBranchText>> ELSE <<>>

\* lines 76-176
newServerJs(config, options) ==
    conditionalImports(config.gen)
    \o <<RequiresText>>
    \o sessionImports(options)
    \o <<NextAppText>> \o JSONstringify(Str(config.name), FALSE) \o <<T("] = ")>>
    \o onRequest(config.gen, config.region)
    \o <<HandlerOpenText>>
    \o sessionHandler(options)
    \o <<HandlerTailText>>

CallNewServerJs ==
    /\ \E config \in Configs, options \in ClientOptions :
        server' = [status |-> "returned", config |-> config, options |-> options,
                   text |-> newServerJs(config, options)]
    /\ UNCHANGED <<routesVars, yaml, packageVars>>

InitTemplates ==
    /\ disk = [p \in Paths |-> Missing]
    /\ pc = "idle"
    /\ distDirArg = ".next"
    /\ reads = 0
    /\ routes = NoCall
    /\ yaml = NoCall
    /\ server = NoCall
    /\ heap = EmptyHeap
    /\ argBefore = EmptyHeap
    /\ pkg = NoCall
    /\ prevText = <<>>

NextTemplates == CallNewFunctionsYaml \/ CallNewServerJs

SpecTemplates == InitTemplates /\ [][NextTemplates]_vars

\* --------------------------------------------- properties of the templates
Contains(text, tok) == \E i \in 1..Len(text) : text[i] = tok

\* C9: the descriptor has exactly one endpoint, keyed by name, with platform
\* "gcfv" followed by the generation, region the one-element list [region],
\* empty labels and httpsTrigger and entryPoint name; specVersion is
\* "v1alpha1" and requiredAPIs is empty.
C9_FunctionDescriptor ==
    yaml.status = "returned" =>
        LET c == yaml.config
            doc == JSONparseText(yaml.text)
            endpoints == GetProp(doc[2], "endpoints")
            endpoint == GetProp(endpoints[2], c.name)
        IN  /\ doc[1] = "object"
            /\ [i \in 1..Len(doc[2]) |-> doc[2][i][1]]
                = <<"endpoints", "specVersion", "requiredAPIs">>
            /\ endpoints[1] = "object" /\ Len(endpoints[2]) = 1
            /\ endpoints[2][1][1] = c.name
            /\ endpoint[1] = "object"
            /\ { endpoint[2][i][1] : i \in 1..Len(endpoint[2]) }
                = {"platform", "region", "labels", "httpsTrigger", "entryPoint"}
            /\ Len(endpoint[2]) = 5
            /\ GetProp(endpoint[2], "platform")
                = Str(IF c.gen = 1 THEN "gcfv1" ELSE "gcfv2")
            /\ GetProp(endpoint[2], "region") = <<"array", <<Str(c.region)>> >>
            /\ GetProp(endpoint[2], "labels") = <<"object", <<>> >>
            /\ GetProp(endpoint[2], "httpsTrigger") = <<"object", <<>> >>
            /\ GetProp(endpoint[2], "entryPoint") = Str(c.name)
            /\ GetProp(doc[2], "specVersion") = Str("v1alpha1")
            /\ GetProp(doc[2], "requiredAPIs") = <<"array", <<>> >>

C9_Witness ==
    /\ yaml.status = "returned"
    /\ yaml.config = [gen |-> 2, name |-> "ssr", region |-> "us-central1"]
    /\ Len(yaml.text) > 20

InitPackage ==
    /\ disk = [p \in Paths |-> Missing]
    /\ pc = "idle"
    /\ distDirArg = ".next"
    /\ reads = 0
    /\ routes = NoCall
    /\ yaml = NoCall
    /\ server = NoCall
    /\ \E n \in NameChoices, m \in MainChoices, d \in DepsChoices, e \in EnginesChoices :
        heap = [id \in ObjIds |->
                  CASE id = "packageJson" -> n \o m \o d.top \o e.top
                    [] id = "dependencies" -> d.props
                    [] OTHER -> e.props]
    /\ argBefore = heap
    /\ pkg = NoCall
    /\ prevText = <<>>

NextPackage == CallNewPackageJson \/ ReparseAndPatch

SpecPackage == InitPackage /\ [][NextPackage]_vars

\* -------------------------------------------- properties of newPackageJson
PatchedKeys == {"firebase-admin", "firebase-functions", "cookie", "lru-cache"}
DefaultOf(k) ==
    CASE k = "firebase-admin" -> Str("^10.0.0")
      [] k = "firebase-functions" -> Str("^3.16.0")
      [] k = "cookie" -> Str("^0.4.2")
      [] k = "lru-cache" -> Str("^7.3.1")
      [] OTHER -> Str("18")
OutManifest == JSONparseText(pkg.text)[2]
OutDependencies == GetProp(OutManifest, "dependencies")[2]
OutEngines == GetProp(OutManifest, "engines")[2]
InEnginesIsObject == GetProp(argBefore["packageJson"], "engines")[1] = "ref"

\* C1: for each of the four dependency keys and engines.node, a key present in
\* the input keeps its value in the output whatever the value, and the default
\* is written only when the key is absent.
C1_NeverOverwrites ==
    pkg.status = "returned" =>
        /\ \A k \in PatchedKeys :
            IF HasProp(argBefore["dependencies"], k)
            THEN GetProp(OutDependencies, k) = GetProp(argBefore["dependencies"], k)
            ELSE GetProp(OutDependencies, k) = DefaultOf(k)
        /\ IF InEnginesIsObject /\ HasProp(argBefore["engines"], "node")
           THEN GetProp(OutEngines, "node") = GetProp(argBefore["engines"], "node")
           ELSE GetProp(OutEngines, "node") = DefaultOf("node")

\* C2: a call leaves the caller's manifest, with its nested dependencies and
\* engines mappings, exactly as it was before the call.
C2_ArgumentUnchanged ==
    pkg.status \in {"returned", "threw"} => heap = argBefore

\* C6: patching the parse of a text newPackageJson returned returns that same
\* text, token for token.
C6_Idempotent ==
    (pkg.status \in {"returned", "threw"} /\ pkg.of = "reparsed") =>
        (pkg.status = "returned" /\ pkg.text = prevText)

C6_Witness ==
    /\ pkg.status = "returned"
    /\ pkg.of = "reparsed"
    /\ pkg.text = prevText
    /\ GetProp(OutDependencies, "firebase-admin") = Str("9.9.9")
    /\ GetProp(OutDependencies, "cookie") = Str("^0.4.2")
    /\ GetProp(OutManifest, "main") = Str("server.js")
    /\ GetProp(OutEngines, "node") = Str("16")

====
